---- MODULE Spec2Model ----
(***************************************************************************)
(* Model of tidalite's playback engine (src/tidalite/player.py) and of the *)
(* callers that command it.                                                *)
(*                                                                         *)
(* Three kinds of thread touch a Player:                                   *)
(*   - the command thread (the asyncio event loop / the CLI), which runs   *)
(*     play(), stop() and toggle_pause() one after the other;              *)
(*   - one playback worker per play(), running Player._stream_audio;       *)
(*   - the reader of Player.status (rich's Live refresh thread renders the *)
(*     Footer at 10 Hz, the CLI polls it).                                 *)
(* No lock guards the Player's fields, so the threads interleave.  A step  *)
(* ends at every blocking call (join, the download, pause_event.wait,      *)
(* stream.write) and between the two halves of a read-then-write of a      *)
(* shared field (position +=, the reads of status); straight-line          *)
(* assignments between two such points are taken as one step.              *)
(***************************************************************************)
EXTENDS Integers, FiniteSets, Sequences, TLC

\* ---- bounds -------------------------------------------------------------
MaxPlays == 2      \* play() calls, hence playback workers, in one run
NumTracks == 2     \* distinct tracks a caller can ask for
MaxBlocks == 3     \* audio blocks written to the device in one run
MaxViews == 3      \* View objects constructed in one run, the HomeView included
MaxNav == 6        \* push_view and pop_view calls in one run
MaxItems == 2      \* items in a content list or a track list
MaxHeight == 2     \* lines the display gives a list to render in
MaxDelta == 2      \* largest step a caller passes to SelectableList.move

\* ---- values -------------------------------------------------------------
None == 0                       \* Python's None for tracks, threads, streams, files
Tracks == 1..NumTracks
Workers == 1..MaxPlays          \* a worker, its temp file and the stream it opens share one id
Urls == {"none", "url"}         \* StreamDetails.url: missing, or a locator
Views == 1..MaxViews            \* View objects in order of construction; 1 is the HomeView
NavList == 1                    \* the HomeView's nav_list; a TrackView's track_list has the view's id
ContentList == MaxViews + 1     \* the HomeView's content_list
ListIds == 1..(MaxViews + 1)    \* id() of every SelectableList
StaleId == MaxViews + 2         \* the id of a list that is no longer there
NavItems == 1                   \* len(nav_items) of the HomeView
QuitKeys == {"q", "ctrl+c"}
PopKeys == {"b", "esc"}
GlobalKeys == QuitKeys \cup PopKeys \cup {" "}
DownKeys == {"j", "down"}
UpKeys == {"k", "up"}
ViewKeys == DownKeys \cup UpKeys \cup {"tab", "enter", "x"}   \* x: any other key

\* Track.duration of track t; track 1 carries no duration (None / 0)
TrackDuration(t) == t - 1

VARIABLES
    current_track,     \* Player.current_track
    playback_thread,   \* Player.playback_thread (id of the newest worker)
    stop_event,        \* Player.stop_event.is_set()
    pause_event,       \* Player.pause_event.is_set(); set = not paused
    stream,            \* Player.stream: the OutputStream last assigned, never reset
    position,          \* Player.position, in blocks
    duration,          \* Player.duration
    is_paused,         \* Player.is_paused
    temp_file,         \* Player._temp_file
    w_pc,              \* where each worker is in _stream_audio
    w_tmp,             \* the value of self.position a worker loaded for +=
    w_target,          \* the stream a worker's pending write() was called on
    w_exit,            \* why a worker left its try block
    streams,           \* state of every OutputStream: none, started, closed
    files,             \* temp files that exist on disk
    blocks,            \* blocks handed to the device so far
    ui_pc,             \* where the command thread is
    ui_op,             \* the Player method the command thread is inside
    ui_track,          \* track of the play() in progress or last returned; None once stop() is called
    lastNoop,          \* which command, if any, has just returned without doing anything
    st_pc,             \* where the status reader is
    st_state,          \* the "state" entry the reader has already computed
    lastStatus,        \* the dict Player.status has just returned to its caller
    view_stack,        \* TUIApp.view_stack, bottom first
    body,              \* the view whose layout TUIApp.layout["body"] shows
    running,           \* TUIApp.running
    views_made,        \* how many View objects have been constructed
    enters,            \* per view, how many times its on_enter has been called
    leaves,            \* per view, how many times its on_leave has been called
    nav_pc,            \* where the event loop is inside push_view / pop_view
    nav_view,          \* push_view's argument, pop_view's old_view
    nav_op,            \* the navigation call in progress or last returned
    nav_n,             \* navigation calls made so far
    nav_before,        \* view_stack as it was when that call was made
    op_calls,          \* the callbacks that call has invoked, in order
    loop_pc,           \* where TUIApp.run and its event loop are
    key,               \* final_key of the event being handled
    ev_log,            \* calls made while handling the last event, in order
    items,             \* per list, len(self.items)
    selected_index,    \* per list, SelectableList.selected_index
    scroll_offset,     \* per list, SelectableList.scroll_offset
    hover_index,       \* per list, SelectableList.hover_index
    is_focused,        \* per list, SelectableList.is_focused
    content_list,      \* ThreePaneView.content_list of the HomeView
    active_list        \* ThreePaneView.active_list of the HomeView

playerVars == <<current_track, playback_thread, stop_event, pause_event, stream,
                position, duration, is_paused, temp_file>>
workerVars == <<w_pc, w_tmp, w_target, w_exit, streams, files, blocks>>
uiVars     == <<ui_pc, ui_op, ui_track, lastNoop>>
statusVars == <<st_pc, st_state, lastStatus>>
navVars    == <<view_stack, body, running, views_made, enters, leaves, nav_pc,
                nav_view, nav_op, nav_n, nav_before, op_calls>>
loopVars   == <<loop_pc, key, ev_log>>
listVars   == <<items, selected_index, scroll_offset, hover_index, is_focused,
                content_list, active_list>>
tuiVars    == <<loopVars, listVars>>
vars == <<playerVars, workerVars, uiVars, statusVars, navVars, tuiVars>>

\* ---- helpers ------------------------------------------------------------
\* threading.Thread.is_alive(): started and not yet returned
is_alive(w) == w # None /\ w_pc[w] \notin {"unborn", "done"}

\* the worker is inside its finally block or has returned
Ended(w) == w_pc[w] \in {"fin_release", "fin_clear", "done"}

\* the dict status returns when there is no current track
StoppedStatus == [state |-> "stopped", track |-> None, position |-> 0,
                  duration |-> 0, paused |-> TRUE]

NoStatus == [state |-> "unread", track |-> None, position |-> 0,
             duration |-> 0, paused |-> FALSE]

\* player.py 106-117 run with no other thread's step in between
StatusNow ==
    IF current_track = None
    THEN StoppedStatus
    ELSE [state |-> IF is_paused THEN "paused" ELSE "playing",
          track |-> current_track, position |-> position,
          duration |-> duration, paused |-> is_paused]

\* stop() has returned and no play() has been called since
AfterStop == ui_pc = "idle" /\ ui_track = None /\ playback_thread # None

Init ==
    /\ current_track = None
    /\ playback_thread = None
    /\ stop_event = FALSE
    /\ pause_event = FALSE
    /\ stream = None
    /\ position = 0
    /\ duration = 0
    /\ is_paused = FALSE
    /\ temp_file = None
    /\ w_pc = [w \in Workers |-> "unborn"]
    /\ w_tmp = [w \in Workers |-> 0]
    /\ w_target = [w \in Workers |-> None]
    /\ w_exit = [w \in Workers |-> "running"]
    /\ streams = [w \in Workers |-> "none"]
    /\ files = {}
    /\ blocks = 0
    /\ ui_pc = "idle"
    /\ ui_op = "none"
    /\ ui_track = None
    /\ lastNoop = "none"
    /\ st_pc = "idle"
    /\ st_state = "unread"
    /\ lastStatus = NoStatus
    /\ view_stack = <<>>
    /\ body = None
    /\ running = TRUE
    /\ views_made = 0
    /\ enters = [v \in Views |-> 0]
    /\ leaves = [v \in Views |-> 0]
    /\ nav_pc = "start"
    /\ nav_view = None
    /\ nav_op = "none"
    /\ nav_n = 0
    /\ nav_before = <<>>
    /\ op_calls = <<>>
    /\ loop_pc = "wait"
    /\ key = "none"
    /\ ev_log = <<>>
    /\ items = [l \in ListIds |-> 0]
    /\ selected_index = [l \in ListIds |-> 0]
    /\ scroll_offset = [l \in ListIds |-> 0]
    /\ hover_index = [l \in ListIds |-> -1]
    /\ is_focused = [l \in ListIds |-> FALSE]
    /\ content_list = None
    /\ active_list = NavList

\* ---- the command thread -------------------------------------------------

\* stop_head with line 99 (self.pause_event.set()) left out
stop_head_no_unblock(op, track) ==
    /\ ui_pc = "idle"
    /\ ui_op' = op
    /\ ui_track' = track
    /\ lastNoop' = "none"
    /\ IF is_alive(playback_thread)
       THEN /\ stop_event' = TRUE
            /\ ui_pc' = "stop_join"
       ELSE /\ ui_pc' = "stop_clear"
            /\ UNCHANGED stop_event
    /\ UNCHANGED <<current_track, playback_thread, pause_event, stream, position,
                   duration, is_paused, temp_file, workerVars, statusVars, navVars, tuiVars>>

\* player.py 97-99, the head of stop(): if the thread is alive, set stop_event
\* and pause_event and go on to join it, else go straight to line 102
stop_head(op, track) ==
    /\ ui_pc = "idle"
    /\ ui_op' = op
    /\ ui_track' = track
    /\ lastNoop' = "none"
    /\ IF is_alive(playback_thread)
       THEN /\ stop_event' = TRUE
            /\ pause_event' = TRUE
            /\ ui_pc' = "stop_join"
       ELSE /\ ui_pc' = "stop_clear"
            /\ UNCHANGED <<stop_event, pause_event>>
    /\ UNCHANGED <<current_track, playback_thread, stream, position, duration,
                   is_paused, temp_file, workerVars, statusVars, navVars, tuiVars>>

\* player.py 26-27: Player.play is entered; its first statement is self.stop()
play_call(track) ==
    /\ playback_thread < MaxPlays
    /\ stop_head("play", track)

\* on_track_select with the test of details.url left out
on_track_select_unguarded(track, url) == play_call(track)

\* the callers of play(): TrackView.on_track_select, main.play._play and
\* main._interactive_play all start playback only when details.url is truthy
on_track_select(track, url) ==
    IF url # "none"
    THEN play_call(track)
    ELSE /\ ui_pc = "idle"
         /\ lastNoop' = "no_url"
         /\ UNCHANGED <<ui_pc, ui_op, ui_track, playerVars, workerVars, statusVars, navVars, tuiVars>>

\* player.py 96: Player.stop is entered from the footer's stop button or at exit
stop_call == stop_head("stop", None)

\* stop_join with a join() that carries no timeout
stop_join_untimed ==
    /\ ui_pc = "stop_join"
    /\ ~is_alive(playback_thread)
    /\ ui_pc' = "stop_clear"
    /\ UNCHANGED <<ui_op, ui_track, lastNoop, playerVars, workerVars, statusVars, navVars, tuiVars>>

\* player.py 100: join(timeout=0.5) returns when the worker has returned or
\* when the timeout has elapsed, whichever comes first
stop_join ==
    /\ ui_pc = "stop_join"
    /\ ui_pc' = "stop_clear"
    /\ UNCHANGED <<ui_op, ui_track, lastNoop, playerVars, workerVars, statusVars, navVars, tuiVars>>

\* stop_clear with line 102 (self.current_track = None) left out
stop_clear_keeps_track ==
    /\ ui_pc = "stop_clear"
    /\ ui_op = "stop"
    /\ position' = 0
    /\ is_paused' = FALSE
    /\ ui_pc' = "idle"
    /\ ui_op' = "none"
    /\ UNCHANGED <<current_track, playback_thread, stop_event, pause_event, stream,
                   duration, temp_file, ui_track, lastNoop, workerVars, statusVars, navVars, tuiVars>>

\* player.py 102-104, then stop() returns
stop_clear ==
    /\ ui_pc = "stop_clear"
    /\ ui_op = "stop"
    /\ current_track' = None
    /\ position' = 0
    /\ is_paused' = FALSE
    /\ ui_pc' = "idle"
    /\ ui_op' = "none"
    /\ UNCHANGED <<playback_thread, stop_event, pause_event, stream, duration,
                   temp_file, ui_track, lastNoop, workerVars, statusVars, navVars, tuiVars>>

\* player.py 102-104 inside play(), then 28-36: the new session's fields,
\* both events, the new Thread object
play_start ==
    /\ ui_pc = "stop_clear"
    /\ ui_op = "play"
    /\ current_track' = ui_track
    /\ duration' = TrackDuration(ui_track)
    /\ position' = 0
    /\ is_paused' = FALSE
    /\ stop_event' = FALSE
    /\ pause_event' = TRUE
    /\ playback_thread' = playback_thread + 1
    /\ ui_pc' = "play_spawn"
    /\ UNCHANGED <<stream, temp_file, ui_op, ui_track, lastNoop, workerVars, statusVars, navVars, tuiVars>>

\* player.py 37: Thread.start() waits until the new thread runs, then play()
\* returns
play_spawn ==
    /\ ui_pc = "play_spawn"
    /\ w_pc' = [w_pc EXCEPT ![playback_thread] = "mkstemp"]
    /\ ui_pc' = "idle"
    /\ ui_op' = "none"
    /\ UNCHANGED <<ui_track, lastNoop, playerVars, w_tmp, w_target, w_exit,
                   streams, files, blocks, statusVars, navVars, tuiVars>>

\* toggle_pause with the test of current_track left out
toggle_pause_unguarded ==
    /\ ui_pc = "idle"
    /\ is_paused' = ~is_paused
    /\ pause_event' = is_paused
    /\ lastNoop' = IF current_track = None THEN "toggle_pause" ELSE "none"
    /\ UNCHANGED <<current_track, playback_thread, stop_event, stream, position,
                   duration, temp_file, ui_pc, ui_op, ui_track,
                   workerVars, statusVars, navVars, tuiVars>>

\* toggle_pause with lines 91-94 replaced by an unconditional set of the gate
toggle_pause_gate_open ==
    /\ ui_pc = "idle"
    /\ IF current_track = None
       THEN /\ lastNoop' = "toggle_pause"
            /\ UNCHANGED <<is_paused, pause_event>>
       ELSE /\ is_paused' = ~is_paused
            /\ pause_event' = TRUE
            /\ lastNoop' = "none"
    /\ UNCHANGED <<current_track, playback_thread, stop_event, stream, position,
                   duration, temp_file, ui_pc, ui_op, ui_track,
                   workerVars, statusVars, navVars, tuiVars>>

\* toggle_pause with lines 91-94 left out: the flag flips, the gate stays
toggle_pause_gate_kept ==
    /\ ui_pc = "idle"
    /\ IF current_track = None
       THEN /\ lastNoop' = "toggle_pause"
            /\ UNCHANGED is_paused
       ELSE /\ is_paused' = ~is_paused
            /\ lastNoop' = "none"
    /\ UNCHANGED <<current_track, playback_thread, stop_event, pause_event, stream,
                   position, duration, temp_file, ui_pc, ui_op, ui_track,
                   workerVars, statusVars, navVars, tuiVars>>

\* player.py 87-94
toggle_pause ==
    /\ ui_pc = "idle"
    /\ IF current_track = None
       THEN /\ lastNoop' = "toggle_pause"
            /\ UNCHANGED <<is_paused, pause_event>>
       ELSE /\ is_paused' = ~is_paused
            /\ pause_event' = is_paused      \* cleared when now paused, set when resumed
            /\ lastNoop' = "none"
    /\ UNCHANGED <<current_track, playback_thread, stop_event, stream, position,
                   duration, temp_file, ui_pc, ui_op, ui_track,
                   workerVars, statusVars, navVars, tuiVars>>

\* ---- the playback worker: Player._stream_audio --------------------------

\* leave the try block for the finally block
ToFinally(w, why) ==
    /\ w_pc' = [w_pc EXCEPT ![w] = "fin_release"]
    /\ w_exit' = [w_exit EXCEPT ![w] = why]

\* player.py 41-43
stream_audio_mkstemp(w) ==
    /\ w_pc[w] = "mkstemp"
    /\ files' = files \cup {w}
    /\ temp_file' = w
    /\ w_pc' = [w_pc EXCEPT ![w] = "download"]
    /\ UNCHANGED <<current_track, playback_thread, stop_event, pause_event, stream,
                   position, duration, is_paused, w_tmp, w_target, w_exit,
                   streams, blocks, uiVars, statusVars, navVars, tuiVars>>

\* stream_audio_download_fail with the cleanup on the normal path only: the
\* error ends the thread without running lines 75-85
stream_audio_download_fail_no_cleanup(w) ==
    /\ w_pc[w] = "download"
    /\ w_pc' = [w_pc EXCEPT ![w] = "done"]
    /\ w_exit' = [w_exit EXCEPT ![w] = "error"]
    /\ UNCHANGED <<playerVars, w_tmp, w_target, streams, files, blocks,
                   uiVars, statusVars, navVars, tuiVars>>

\* player.py 45-46: the request fails or raise_for_status() raises
stream_audio_download_fail(w) ==
    /\ w_pc[w] = "download"
    /\ ToFinally(w, "error")
    /\ UNCHANGED <<playerVars, w_tmp, w_target, streams, files, blocks,
                   uiVars, statusVars, navVars, tuiVars>>

\* player.py 47-53: the chunk loop ends, by exhaustion or by the break on
\* stop_event, and stop_event is tested once more
stream_audio_download_end(w) ==
    /\ w_pc[w] = "download"
    /\ IF stop_event
       THEN ToFinally(w, "cancel")
       ELSE w_pc' = [w_pc EXCEPT ![w] = "open"] /\ UNCHANGED w_exit
    /\ UNCHANGED <<playerVars, w_tmp, w_target, streams, files, blocks,
                   uiVars, statusVars, navVars, tuiVars>>

\* player.py 54-59: SoundFile cannot decode the file, or OutputStream cannot
\* open the device; self.stream is not assigned
stream_audio_open_fail(w) ==
    /\ w_pc[w] = "open"
    /\ ToFinally(w, "error")
    /\ UNCHANGED <<playerVars, w_tmp, w_target, streams, files, blocks,
                   uiVars, statusVars, navVars, tuiVars>>

\* player.py 54-60: self.stream = sd.OutputStream(...); self.stream.start()
stream_audio_open(w) ==
    /\ w_pc[w] = "open"
    /\ stream' = w
    /\ streams' = [streams EXCEPT ![w] = "started"]
    /\ w_pc' = [w_pc EXCEPT ![w] = "loop"]
    /\ UNCHANGED <<current_track, playback_thread, stop_event, pause_event,
                   position, duration, is_paused, temp_file, w_tmp, w_target,
                   w_exit, files, blocks, uiVars, statusVars, navVars, tuiVars>>

\* stream_audio_loop with a loop that does not test stop_event
stream_audio_loop_untested(w) ==
    /\ w_pc[w] = "loop"
    /\ w_pc' = [w_pc EXCEPT ![w] = "wait"]
    /\ UNCHANGED <<playerVars, w_tmp, w_target, w_exit, streams, files, blocks,
                   uiVars, statusVars, navVars, tuiVars>>

\* player.py 63: while not self.stop_event.is_set()
stream_audio_loop(w) ==
    /\ w_pc[w] = "loop"
    /\ IF stop_event
       THEN ToFinally(w, "cancel")
       ELSE w_pc' = [w_pc EXCEPT ![w] = "wait"] /\ UNCHANGED w_exit
    /\ UNCHANGED <<playerVars, w_tmp, w_target, streams, files, blocks,
                   uiVars, statusVars, navVars, tuiVars>>

\* player.py 64-67: pause_event.wait() returns, read returns no data
stream_audio_read_eof(w) ==
    /\ w_pc[w] = "wait"
    /\ pause_event
    /\ ToFinally(w, "eof")
    /\ UNCHANGED <<playerVars, w_tmp, w_target, streams, files, blocks,
                   uiVars, statusVars, navVars, tuiVars>>

\* player.py 64-69: pause_event.wait() returns, read returns a block and
\* self.stream.write(data) is called on whatever self.stream is now; writing
\* to a closed stream raises
stream_audio_read_block(w) ==
    /\ w_pc[w] = "wait"
    /\ pause_event
    /\ blocks < MaxBlocks
    /\ IF streams[stream] = "started"
       THEN /\ w_pc' = [w_pc EXCEPT ![w] = "write"]
            /\ w_target' = [w_target EXCEPT ![w] = stream]
            /\ blocks' = blocks + 1
            /\ UNCHANGED w_exit
       ELSE /\ ToFinally(w, "error")
            /\ UNCHANGED <<w_target, blocks>>
    /\ UNCHANGED <<playerVars, w_tmp, streams, files, uiVars, statusVars, navVars, tuiVars>>

\* player.py 69-70: write() returns; self.position is loaded for the +=
stream_audio_write_done(w) ==
    /\ w_pc[w] = "write"
    /\ w_pc' = [w_pc EXCEPT ![w] = "posadd"]
    /\ w_tmp' = [w_tmp EXCEPT ![w] = position]
    /\ w_target' = [w_target EXCEPT ![w] = None]
    /\ UNCHANGED <<playerVars, w_exit, streams, files, blocks, uiVars, statusVars, navVars, tuiVars>>

\* player.py 69: the stream was closed under the pending write(), which raises
stream_audio_write_fail(w) ==
    /\ w_pc[w] = "write"
    /\ streams[w_target[w]] = "closed"
    /\ ToFinally(w, "error")
    /\ w_target' = [w_target EXCEPT ![w] = None]
    /\ UNCHANGED <<playerVars, w_tmp, streams, files, blocks, uiVars, statusVars, navVars, tuiVars>>

\* player.py 70: the sum is stored into self.position
stream_audio_posadd(w) ==
    /\ w_pc[w] = "posadd"
    /\ position' = w_tmp[w] + 1
    /\ w_tmp' = [w_tmp EXCEPT ![w] = 0]
    /\ w_pc' = [w_pc EXCEPT ![w] = "loop"]
    /\ UNCHANGED <<current_track, playback_thread, stop_event, pause_event, stream,
                   duration, is_paused, temp_file, w_target, w_exit, streams,
                   files, blocks, uiVars, statusVars, navVars, tuiVars>>

\* player.py 75-82: stop and close whatever self.stream is now, remove
\* whatever self._temp_file names now
stream_audio_fin_release(w) ==
    /\ w_pc[w] = "fin_release"
    /\ streams' = IF stream # None THEN [streams EXCEPT ![stream] = "closed"] ELSE streams
    /\ files' = IF temp_file # None THEN files \ {temp_file} ELSE files
    /\ w_pc' = [w_pc EXCEPT ![w] = "fin_clear"]
    /\ UNCHANGED <<playerVars, w_tmp, w_target, w_exit, blocks, uiVars, statusVars, navVars, tuiVars>>

\* stream_audio_fin_clear with line 84 (self.current_track = None) left out
stream_audio_fin_clear_keeps_track(w) ==
    /\ w_pc[w] = "fin_clear"
    /\ temp_file' = None
    /\ w_pc' = [w_pc EXCEPT ![w] = "done"]
    /\ UNCHANGED <<current_track, playback_thread, stop_event, pause_event, stream,
                   position, duration, is_paused, w_tmp, w_target, w_exit, streams,
                   files, blocks, uiVars, statusVars, navVars, tuiVars>>

\* player.py 84-85; the thread returns
stream_audio_fin_clear(w) ==
    /\ w_pc[w] = "fin_clear"
    /\ current_track' = None
    /\ temp_file' = None
    /\ w_pc' = [w_pc EXCEPT ![w] = "done"]
    /\ UNCHANGED <<playback_thread, stop_event, pause_event, stream, position,
                   duration, is_paused, w_tmp, w_target, w_exit, streams, files,
                   blocks, uiVars, statusVars, navVars, tuiVars>>

\* ---- the reader of Player.status ---------------------------------------

\* player.py 108-109
status_check ==
    /\ st_pc = "idle"
    /\ IF current_track = None
       THEN /\ lastStatus' = StoppedStatus
            /\ st_pc' = "returned"
            /\ UNCHANGED st_state
       ELSE /\ st_pc' = "state"
            /\ UNCHANGED <<st_state, lastStatus>>
    /\ UNCHANGED <<playerVars, workerVars, uiVars, navVars, tuiVars>>

\* player.py 112
status_state ==
    /\ st_pc = "state"
    /\ st_state' = IF is_paused THEN "paused" ELSE "playing"
    /\ st_pc' = "rest"
    /\ UNCHANGED <<lastStatus, playerVars, workerVars, uiVars, navVars, tuiVars>>

\* player.py 113-117
status_rest ==
    /\ st_pc = "rest"
    /\ lastStatus' = [state |-> st_state, track |-> current_track,
                      position |-> position, duration |-> duration,
                      paused |-> is_paused]
    /\ st_pc' = "returned"
    /\ st_state' = "unread"
    /\ UNCHANGED <<playerVars, workerVars, uiVars, navVars, tuiVars>>

\* the caller (Footer.__rich__, main.status) has used the dict and drops it
status_used ==
    /\ st_pc = "returned"
    /\ st_pc' = "idle"
    /\ lastStatus' = NoStatus
    /\ UNCHANGED <<st_state, playerVars, workerVars, uiVars, navVars, tuiVars>>

\* ---- the interactive session: TUIApp, the views and their lists ----------
\* The calls the session makes on the Player are recorded in ev_log; what the
\* Player does on each of them is the subject of the actions above.

\* view_stack[-1]
Last(s) == s[Len(s)]

\* what list.pop() leaves behind
Front(s) == SubSeq(s, 1, Len(s) - 1)

Max(a, b) == IF a > b THEN a ELSE b
Min(a, b) == IF a < b THEN a ELSE b

otherVars == <<playerVars, workerVars, uiVars, statusVars>>

\* the lists view v owns: the HomeView its nav_list and, once loaded, its
\* content_list; a TrackView its track_list
ListsOf(v) ==
    IF v = 1
    THEN {NavList} \cup (IF content_list # None THEN {ContentList} ELSE {})
    ELSE {v}

\* the SelectableList objects that exist: those of the views on the stack
\* and of the view being pushed
ListsMade ==
    UNION {ListsOf(v) : v \in {view_stack[n] : n \in 1..Len(view_stack)}
                                \cup (IF nav_pc \in {"push_leave", "push_append"}
                                      THEN {nav_view} ELSE {})}

\* SelectableList.selected_item
selected_item(l) == IF items[l] > 0 THEN selected_index[l] + 1 ELSE None

\* components.py 96: the index move(direction) computes
new_index(l, direction) ==
    Max(0, Min(items[l] - 1, selected_index[l] + direction))

\* components.py 99-100: only a content list has on_change installed
\* (views.py 68); the call is recorded with the item it is given
on_change_calls(l, direction) ==
    IF new_index(l, direction) # selected_index[l] /\ l = ContentList
    THEN << <<"on_change", l, new_index(l, direction) + 1>> >>
    ELSE <<>>

\* components.py 95-98: SelectableList.move, the fields it assigns
move(l, direction) ==
    /\ selected_index' = [selected_index EXCEPT ![l] = new_index(l, direction)]
    /\ UNCHANGED <<items, scroll_offset, hover_index, is_focused, content_list,
                   active_list>>

\* components.py 79-88: a new SelectableList of n items as list l
SelectableList(l, n) ==
    /\ items' = [items EXCEPT ![l] = n]
    /\ selected_index' = [selected_index EXCEPT ![l] = 0]
    /\ scroll_offset' = [scroll_offset EXCEPT ![l] = 0]
    /\ hover_index' = [hover_index EXCEPT ![l] = -1]

\* app.py 43: push_view is entered with a newly constructed view v whose
\* list holds n items (views.py 37-41 and 51-55 for the HomeView, 137-143
\* for a TrackView: the list is focused)
push_view_call(v, n) ==
    /\ nav_n < MaxNav
    /\ nav_view' = v
    /\ views_made' = v
    /\ nav_op' = "push"
    /\ nav_n' = nav_n + 1
    /\ nav_before' = view_stack
    /\ op_calls' = <<>>
    /\ nav_pc' = "push_leave"
    /\ SelectableList(v, n)
    /\ is_focused' = [is_focused EXCEPT ![v] = TRUE]
    /\ UNCHANGED <<view_stack, body, running, enters, leaves, otherVars,
                   loopVars, content_list, active_list>>

\* app.py 77: the event loop begins by pushing a HomeView, whose nav_list
\* holds the one entry "playlists" (views.py 112-115)
event_loop_start ==
    /\ nav_pc = "start"
    /\ push_view_call(1, NavItems)

\* views.py 62-73, ThreePaneView.on_nav_select: the loader returns n items, a
\* new content list replaces the old one, then _switch_focus (75-81)
on_nav_select ==
    /\ loop_pc = "wait"
    /\ nav_pc = "idle"
    /\ running
    /\ views_made >= 1
    /\ \E n \in 0..MaxItems : SelectableList(ContentList, n)
    /\ content_list' = ContentList
    /\ IF active_list = NavList
       THEN /\ active_list' = ContentList
            /\ is_focused' = [is_focused EXCEPT ![NavList] = FALSE,
                                                 ![ContentList] = TRUE]
       ELSE /\ active_list' = NavList
            /\ is_focused' = [is_focused EXCEPT ![NavList] = TRUE,
                                                 ![ContentList] = FALSE]
    /\ UNCHANGED <<navVars, loopVars, otherVars>>

\* views.py 122-124, HomeView.on_content_select, the on_select of the content
\* list shown while the HomeView is on top: the tracks of the selected
\* playlist are fetched, a TrackView is constructed on them and pushed
on_content_select ==
    /\ loop_pc = "wait"
    /\ nav_pc = "idle"
    /\ running
    /\ views_made < MaxViews
    /\ view_stack # <<>>
    /\ Last(view_stack) = 1
    /\ content_list # None
    /\ selected_item(ContentList) # None
    /\ \E n \in 0..MaxItems : push_view_call(views_made + 1, n)

\* push_view_leave with the call of on_leave left out
push_view_leave_skipped ==
    /\ nav_pc = "push_leave"
    /\ nav_pc' = "push_append"
    /\ UNCHANGED <<view_stack, body, running, views_made, enters, leaves, nav_view,
                   nav_op, nav_n, nav_before, op_calls, otherVars, tuiVars>>

\* app.py 44-45: if the stack is not empty, on_leave of its top
push_view_leave ==
    /\ nav_pc = "push_leave"
    /\ IF view_stack # <<>>
       THEN /\ leaves' = [leaves EXCEPT ![Last(view_stack)] = @ + 1]
            /\ op_calls' = Append(op_calls, <<"on_leave", Last(view_stack)>>)
       ELSE UNCHANGED <<leaves, op_calls>>
    /\ nav_pc' = "push_append"
    /\ UNCHANGED <<view_stack, body, running, views_made, enters, nav_view,
                   nav_op, nav_n, nav_before, otherVars, tuiVars>>

\* app.py 46
push_view_append ==
    /\ nav_pc = "push_append"
    /\ view_stack' = Append(view_stack, nav_view)
    /\ nav_pc' = "push_enter"
    /\ UNCHANGED <<body, running, views_made, enters, leaves, nav_view, nav_op,
                   nav_n, nav_before, op_calls, otherVars, tuiVars>>

\* app.py 47-48: on_enter of the pushed view, then its layout becomes the body
push_view_enter ==
    /\ nav_pc = "push_enter"
    /\ enters' = [enters EXCEPT ![nav_view] = @ + 1]
    /\ op_calls' = Append(op_calls, <<"on_enter", nav_view>>)
    /\ body' = nav_view
    /\ nav_pc' = "idle"
    /\ UNCHANGED <<view_stack, running, views_made, leaves, nav_view, nav_op,
                   nav_n, nav_before, otherVars, tuiVars>>

\* app.py 78-84: an event arrives while the loop waits and running is set;
\* final_key is k, or none for a mouse event that maps to no key
event(k) ==
    /\ loop_pc = "wait"
    /\ nav_pc = "idle"
    /\ running
    /\ key' = k

\* pop_view_call with the test of line 51 weakened to a non-empty stack
pop_view_call_any ==
    /\ \E k \in PopKeys : event(k)
    /\ nav_n < MaxNav
    /\ nav_op' = "pop"
    /\ nav_n' = nav_n + 1
    /\ nav_before' = view_stack
    /\ op_calls' = <<>>
    /\ IF Len(view_stack) > 0
       THEN /\ view_stack' = Front(view_stack)
            /\ nav_view' = Last(view_stack)
            /\ nav_pc' = "pop_leave"
       ELSE UNCHANGED <<view_stack, nav_view, nav_pc>>
    /\ ev_log' = <<>>
    /\ loop_pc' = "forward"
    /\ UNCHANGED <<body, running, views_made, enters, leaves, otherVars, listVars>>

\* pop_view_call that stops the application when the stack holds one view
pop_view_call_quits ==
    /\ \E k \in PopKeys : event(k)
    /\ nav_n < MaxNav
    /\ nav_op' = "pop"
    /\ nav_n' = nav_n + 1
    /\ nav_before' = view_stack
    /\ op_calls' = <<>>
    /\ IF Len(view_stack) > 1
       THEN /\ view_stack' = Front(view_stack)
            /\ nav_view' = Last(view_stack)
            /\ nav_pc' = "pop_leave"
            /\ UNCHANGED running
       ELSE /\ running' = FALSE
            /\ UNCHANGED <<view_stack, nav_view, nav_pc>>
    /\ ev_log' = <<>>
    /\ loop_pc' = "forward"
    /\ UNCHANGED <<body, views_made, enters, leaves, otherVars, listVars>>

\* app.py 93 and 50-52: key b or esc calls pop_view, which does nothing
\* unless the stack holds more than one view, and else removes the top first;
\* the loop then goes on to line 95
pop_view_call ==
    /\ \E k \in PopKeys : event(k)
    /\ nav_n < MaxNav
    /\ nav_op' = "pop"
    /\ nav_n' = nav_n + 1
    /\ nav_before' = view_stack
    /\ op_calls' = <<>>
    /\ IF Len(view_stack) > 1
       THEN /\ view_stack' = Front(view_stack)
            /\ nav_view' = Last(view_stack)
            /\ nav_pc' = "pop_leave"
       ELSE UNCHANGED <<view_stack, nav_view, nav_pc>>
    /\ ev_log' = <<>>
    /\ loop_pc' = "forward"
    /\ UNCHANGED <<body, running, views_made, enters, leaves, otherVars, listVars>>

\* pop_view_leave with line 53 (await old_view.on_leave()) left out
pop_view_leave_skipped ==
    /\ nav_pc = "pop_leave"
    /\ nav_pc' = "pop_enter"
    /\ UNCHANGED <<view_stack, body, running, views_made, enters, leaves, nav_view,
                   nav_op, nav_n, nav_before, op_calls, otherVars, tuiVars>>

\* app.py 53: on_leave of the view just removed
pop_view_leave ==
    /\ nav_pc = "pop_leave"
    /\ leaves' = [leaves EXCEPT ![nav_view] = @ + 1]
    /\ op_calls' = Append(op_calls, <<"on_leave", nav_view>>)
    /\ nav_pc' = "pop_enter"
    /\ UNCHANGED <<view_stack, body, running, views_made, enters, nav_view,
                   nav_op, nav_n, nav_before, otherVars, tuiVars>>

\* pop_view returns and old_view goes out of scope: the popped TrackView and
\* its track_list are unreachable, so the list's fields no longer matter
Dropped(l) ==
    /\ items' = [items EXCEPT ![l] = 0]
    /\ selected_index' = [selected_index EXCEPT ![l] = 0]
    /\ scroll_offset' = [scroll_offset EXCEPT ![l] = 0]
    /\ hover_index' = [hover_index EXCEPT ![l] = -1]
    /\ is_focused' = [is_focused EXCEPT ![l] = FALSE]
    /\ UNCHANGED <<content_list, active_list, loopVars>>

\* pop_view_enter with line 55 (await new_view.on_enter()) left out
pop_view_enter_silent ==
    /\ nav_pc = "pop_enter"
    /\ body' = Last(view_stack)
    /\ nav_pc' = "idle"
    /\ Dropped(nav_view)
    /\ UNCHANGED <<view_stack, running, views_made, enters, leaves, nav_view,
                   nav_op, nav_n, nav_before, op_calls, otherVars>>

\* app.py 54-56: on_enter of the new top, then its layout becomes the body
pop_view_enter ==
    /\ nav_pc = "pop_enter"
    /\ enters' = [enters EXCEPT ![Last(view_stack)] = @ + 1]
    /\ op_calls' = Append(op_calls, <<"on_enter", Last(view_stack)>>)
    /\ body' = Last(view_stack)
    /\ nav_pc' = "idle"
    /\ Dropped(nav_view)
    /\ UNCHANGED <<view_stack, running, views_made, leaves, nav_view, nav_op,
                   nav_n, nav_before, otherVars>>

\* app.py 91: key q or ctrl+c clears running; the loop goes on to line 95
key_quit ==
    /\ \E k \in QuitKeys : event(k)
    /\ running' = FALSE
    /\ ev_log' = <<>>
    /\ loop_pc' = "forward"
    /\ UNCHANGED <<view_stack, body, views_made, enters, leaves, nav_pc, nav_view,
                   nav_op, nav_n, nav_before, op_calls, otherVars, listVars>>

\* app.py 92: the space key calls player.toggle_pause()
key_space ==
    /\ event(" ")
    /\ ev_log' = << <<"toggle_pause">> >>
    /\ loop_pc' = "forward"
    /\ UNCHANGED <<navVars, otherVars, listVars>>

\* app.py 83-87 with a key that has no global binding (mouse.scroll_down and
\* mouse.scroll_up arrive as down and up)
key_view(k) ==
    /\ event(k)
    /\ ev_log' = <<>>
    /\ loop_pc' = "forward"
    /\ UNCHANGED <<navVars, otherVars, listVars>>

\* app.py 85-89 with any other mouse event (mouse.enter, mouse.leave): no key,
\* no dispatch, and line 95 forwards nothing
event_mouse_other ==
    /\ event("none")
    /\ ev_log' = <<>>
    /\ UNCHANGED <<navVars, otherVars, listVars, loop_pc>>

\* app.py 88-89, 59-65: mouse.press on a footer button; the Clickable carries
\* no metadata, so on_click is called with no argument: player.toggle_pause
\* or player.stop (components.py 49-50)
dispatch_click_footer(b) ==
    /\ event("none")
    /\ ev_log' = << <<b>> >>
    /\ UNCHANGED <<navVars, otherVars, listVars, loop_pc>>

\* app.py 88-89, 59-65: mouse.press on row i of list l.  Every meta entry but
\* "@click" and "on_click" is passed on as a keyword argument (components.py
\* 121-129: item_index, "@mouse.enter", component_id, hover_item_index,
\* "@mouse.leave"); handle_click(self, item_index) takes one, so the call
\* raises TypeError before handle_click runs and the error leaves the loop
dispatch_click(l, i) ==
    /\ event("none")
    /\ view_stack # <<>>
    /\ l \in ListsOf(Last(view_stack))
    /\ i \in scroll_offset[l]..(items[l] - 1)
    /\ ev_log' = <<>>
    /\ loop_pc' = "raised"
    /\ UNCHANGED <<navVars, otherVars, listVars>>

\* handle_input_home with line 76 of _switch_focus (is_focused = False on
\* the list that loses the focus) left out
handle_input_home_keeps_focus ==
    /\ Last(view_stack) = 1
    /\ IF key \in DownKeys
       THEN /\ move(active_list, 1)
            /\ ev_log' = ev_log \o << <<"handle_input", 1>> >>
                                \o on_change_calls(active_list, 1)
       ELSE IF key \in UpKeys
       THEN /\ move(active_list, -1)
            /\ ev_log' = ev_log \o << <<"handle_input", 1>> >>
                                \o on_change_calls(active_list, -1)
       ELSE IF key = "tab"
       THEN /\ IF active_list = NavList /\ content_list # None
               THEN /\ active_list' = ContentList
                    /\ is_focused' = [is_focused EXCEPT ![ContentList] = TRUE]
               ELSE /\ active_list' = NavList
                    /\ is_focused' = [is_focused EXCEPT ![NavList] = TRUE]
            /\ ev_log' = Append(ev_log, <<"handle_input", 1>>)
            /\ UNCHANGED <<items, selected_index, scroll_offset, hover_index,
                           content_list>>
       ELSE /\ ev_log' = Append(ev_log, <<"handle_input", 1>>)
            /\ UNCHANGED listVars
    /\ loop_pc' = "wait"

\* views.py 83-87, ThreePaneView.handle_input on the HomeView: j/down and
\* k/up move the active list, tab is _switch_focus (75-81), enter calls the
\* list's on_select, a coroutine function, without awaiting the result, so
\* nothing of on_nav_select / on_content_select runs
handle_input_home ==
    /\ Last(view_stack) = 1
    /\ IF key \in DownKeys
       THEN /\ move(active_list, 1)
            /\ ev_log' = ev_log \o << <<"handle_input", 1>> >>
                                \o on_change_calls(active_list, 1)
       ELSE IF key \in UpKeys
       THEN /\ move(active_list, -1)
            /\ ev_log' = ev_log \o << <<"handle_input", 1>> >>
                                \o on_change_calls(active_list, -1)
       ELSE IF key = "tab"
       THEN /\ IF active_list = NavList /\ content_list # None
               THEN /\ active_list' = ContentList
                    /\ is_focused' = [is_focused EXCEPT ![NavList] = FALSE,
                                                         ![ContentList] = TRUE]
               ELSE /\ active_list' = NavList
                    /\ is_focused' = [is_focused EXCEPT ![active_list] = FALSE,
                                                         ![NavList] = TRUE]
            /\ ev_log' = Append(ev_log, <<"handle_input", 1>>)
            /\ UNCHANGED <<items, selected_index, scroll_offset, hover_index,
                           content_list>>
       ELSE /\ ev_log' = Append(ev_log, <<"handle_input", 1>>)
            /\ UNCHANGED listVars
    /\ loop_pc' = "wait"

\* handle_input_track with line 155 (if not track: return) left out: the
\* request for the stream details reads track.id of None
handle_input_track_unguarded(v) ==
    /\ Last(view_stack) = v
    /\ v # 1
    /\ IF key \in DownKeys
       THEN /\ move(v, 1)
            /\ ev_log' = Append(ev_log, <<"handle_input", v>>)
            /\ loop_pc' = "wait"
       ELSE IF key \in UpKeys
       THEN /\ move(v, -1)
            /\ ev_log' = Append(ev_log, <<"handle_input", v>>)
            /\ loop_pc' = "wait"
       ELSE IF key = "enter"
       THEN /\ UNCHANGED listVars
            /\ IF selected_item(v) = None
               THEN /\ ev_log' = Append(ev_log, <<"handle_input", v>>)
                    /\ loop_pc' = "raised"
               ELSE \E r \in {"raise", "no_url", "url"} :
                       /\ ev_log' = ev_log \o << <<"handle_input", v>> >>
                                       \o (IF r = "url"
                                           THEN << <<"play", v, selected_item(v)>> >>
                                           ELSE <<>>)
                       /\ loop_pc' = IF r = "raise" THEN "raised" ELSE "wait"
       ELSE /\ ev_log' = Append(ev_log, <<"handle_input", v>>)
            /\ loop_pc' = "wait"
            /\ UNCHANGED listVars

\* views.py 160-163 and 154-158, TrackView.handle_input on view v: j/down and
\* k/up move the track list; enter awaits on_track_select(selected_item),
\* which returns at once without a track, and else asks the catalog for the
\* stream details: the request raises, or gives no url, or gives a url and
\* player.play is called
handle_input_track(v) ==
    /\ Last(view_stack) = v
    /\ v # 1
    /\ IF key \in DownKeys
       THEN /\ move(v, 1)
            /\ ev_log' = Append(ev_log, <<"handle_input", v>>)
            /\ loop_pc' = "wait"
       ELSE IF key \in UpKeys
       THEN /\ move(v, -1)
            /\ ev_log' = Append(ev_log, <<"handle_input", v>>)
            /\ loop_pc' = "wait"
       ELSE IF key = "enter"
       THEN /\ UNCHANGED listVars
            /\ IF selected_item(v) = None
               THEN /\ ev_log' = Append(ev_log, <<"handle_input", v>>)
                    /\ loop_pc' = "wait"
               ELSE \E r \in {"raise", "no_url", "url"} :
                       /\ ev_log' = ev_log \o << <<"handle_input", v>> >>
                                       \o (IF r = "url"
                                           THEN << <<"play", v, selected_item(v)>> >>
                                           ELSE <<>>)
                       /\ loop_pc' = IF r = "raise" THEN "raised" ELSE "wait"
       ELSE /\ ev_log' = Append(ev_log, <<"handle_input", v>>)
            /\ loop_pc' = "wait"
            /\ UNCHANGED listVars

\* app.py 95-96: whatever lines 91-93 did, the key goes to handle_input of
\* the view that is now on top
forward_key ==
    /\ loop_pc = "forward"
    /\ nav_pc = "idle"
    /\ \/ handle_input_home
       \/ \E v \in Views : handle_input_track(v)
    /\ UNCHANGED <<navVars, otherVars, key>>

\* handle_hover that moves the selection along with the highlight
dispatch_hover_selects(c, i) ==
    /\ loop_pc = "wait"
    /\ nav_pc = "idle"
    /\ view_stack # <<>>
    /\ i \in -1..(IF c \in ListsMade THEN items[c] - 1 ELSE MaxItems - 1)
    /\ IF c \in ListsOf(Last(view_stack))
       THEN /\ hover_index' = [hover_index EXCEPT ![c] = i]
            /\ selected_index' = [selected_index EXCEPT ![c] = Max(0, i)]
       ELSE UNCHANGED <<hover_index, selected_index>>
    /\ UNCHANGED <<navVars, otherVars, loopVars, items, scroll_offset,
                   is_focused, content_list, active_list>>

\* app.py 67-73 with views.py 89-92 and 165-167: a hover message for
\* component c, on row i (mouse.enter) or -1 (mouse.leave, item_index None),
\* goes to handle_hover of the top view, which sets hover_index of the list
\* it owns with that id
dispatch_hover(c, i) ==
    /\ loop_pc = "wait"
    /\ nav_pc = "idle"
    /\ view_stack # <<>>
    /\ i \in -1..(IF c \in ListsMade THEN items[c] - 1 ELSE MaxItems - 1)
    /\ IF c \in ListsOf(Last(view_stack))
       THEN hover_index' = [hover_index EXCEPT ![c] = i]
       ELSE UNCHANGED hover_index
    /\ UNCHANGED <<navVars, otherVars, loopVars, items, selected_index,
                   scroll_offset, is_focused, content_list, active_list>>

\* auto_scroll with the second test (components.py 111-112) left out
auto_scroll_up_only(sel, off, h) ==
    IF sel < off THEN sel ELSE off

\* components.py 109-112: the scroll offset a render with height h leaves,
\* given the selected index and the offset before it
auto_scroll(sel, off, h) ==
    LET off1 == IF sel < off THEN sel ELSE off
    IN IF sel >= off1 + h THEN sel - h + 1 ELSE off1

\* components.py 106-112: the Live display renders list l of the view shown
\* in the body with h lines; the scroll offset follows the selection
rich_console(l, h) ==
    /\ loop_pc \in {"wait", "forward", "exited", "raised"}
    /\ body # None
    /\ l \in ListsOf(body)
    /\ scroll_offset' = [scroll_offset EXCEPT
                            ![l] = auto_scroll(selected_index[l], scroll_offset[l], h)]
    /\ UNCHANGED <<navVars, otherVars, loopVars, items, selected_index,
                   hover_index, is_focused, content_list, active_list>>

\* app.py 78-80: the next event after running was cleared ends the loop
loop_break ==
    /\ loop_pc = "wait"
    /\ nav_pc = "idle"
    /\ ~running
    /\ loop_pc' = "exited"
    /\ key' = "none"
    /\ ev_log' = <<>>
    /\ UNCHANGED <<navVars, otherVars, listVars>>

\* app.py 100-101: the with block is left, by the loop's return or by an
\* error raised in it, and the Live display is released; an error goes on
\* out of run()
run_live_exit ==
    /\ loop_pc \in {"exited", "raised"}
    /\ loop_pc' = IF loop_pc = "exited" THEN "released" ELSE "failed"
    /\ UNCHANGED <<navVars, otherVars, listVars, key, ev_log>>

\* app.py 103: self.player.stop()
run_player_stop ==
    /\ loop_pc = "released"
    /\ loop_pc' = "stopped"
    /\ ev_log' = Append(ev_log, <<"stop">>)
    /\ UNCHANGED <<navVars, otherVars, listVars, key>>

\* app.py 104: await self.api.close(); run() returns
run_api_close ==
    /\ loop_pc = "stopped"
    /\ loop_pc' = "closed"
    /\ UNCHANGED <<navVars, otherVars, listVars, key, ev_log>>

\* move_call whose index is not clamped at 0
move_call_unclamped(l, direction) ==
    /\ loop_pc = "wait"
    /\ nav_pc = "idle"
    /\ l \in ListsMade
    /\ selected_index' = [selected_index EXCEPT
                             ![l] = Min(items[l] - 1, selected_index[l] + direction)]
    /\ UNCHANGED <<items, scroll_offset, hover_index, is_focused, content_list,
                   active_list>>
    /\ key' = "none"
    /\ ev_log' = << <<"move", l>> >> \o on_change_calls(l, direction)
    /\ UNCHANGED <<navVars, otherVars, loop_pc>>

\* move_call that calls on_change on every move
move_call_always(l, direction) ==
    /\ loop_pc = "wait"
    /\ nav_pc = "idle"
    /\ l \in ListsMade
    /\ move(l, direction)
    /\ key' = "none"
    /\ ev_log' = << <<"move", l>> >>
                  \o (IF l = ContentList
                      THEN << <<"on_change", l, new_index(l, direction) + 1>> >>
                      ELSE <<>>)
    /\ UNCHANGED <<navVars, otherVars, loop_pc>>

\* move_call that computes the index without regard to the list's length
move_call_unbounded(l, direction) ==
    /\ loop_pc = "wait"
    /\ nav_pc = "idle"
    /\ l \in ListsMade
    /\ selected_index' = [selected_index EXCEPT
                             ![l] = Max(0, selected_index[l] + direction)]
    /\ key' = "none"
    /\ ev_log' = << <<"move", l>> >> \o on_change_calls(l, direction)
    /\ UNCHANGED <<navVars, otherVars, loop_pc, items, scroll_offset, hover_index,
                   is_focused, content_list, active_list>>

\* components.py 95-100: SelectableList.move(direction) called on list l by
\* any caller, with any direction
move_call(l, direction) ==
    /\ loop_pc = "wait"
    /\ nav_pc = "idle"
    /\ l \in ListsMade
    /\ move(l, direction)
    /\ key' = "none"
    /\ ev_log' = << <<"move", l>> >> \o on_change_calls(l, direction)
    /\ UNCHANGED <<navVars, otherVars, loop_pc>>

\* components.py 90-93: SelectableList.handle_click(i) called on list l with
\* a row index of the list; on_select, a coroutine function in every view, is
\* called and its result dropped
handle_click(l, i) ==
    /\ loop_pc = "wait"
    /\ nav_pc = "idle"
    /\ l \in ListsMade
    /\ i \in 0..(items[l] - 1)
    /\ selected_index' = [selected_index EXCEPT ![l] = i]
    /\ key' = "none"
    /\ ev_log' = << <<"handle_click", l>>, <<"on_select", l, i + 1>> >>
    /\ UNCHANGED <<navVars, otherVars, loop_pc, items, scroll_offset, hover_index,
                   is_focused, content_list, active_list>>

\* ---- the system ---------------------------------------------------------
Next ==
    \/ \E t \in Tracks, u \in Urls : on_track_select(t, u)
    \/ stop_call
    \/ stop_join
    \/ stop_clear
    \/ play_start
    \/ play_spawn
    \/ toggle_pause
    \/ \E w \in Workers : stream_audio_mkstemp(w)
    \/ \E w \in Workers : stream_audio_download_fail(w)
    \/ \E w \in Workers : stream_audio_download_end(w)
    \/ \E w \in Workers : stream_audio_open_fail(w)
    \/ \E w \in Workers : stream_audio_open(w)
    \/ \E w \in Workers : stream_audio_loop(w)
    \/ \E w \in Workers : stream_audio_read_eof(w)
    \/ \E w \in Workers : stream_audio_read_block(w)
    \/ \E w \in Workers : stream_audio_write_done(w)
    \/ \E w \in Workers : stream_audio_write_fail(w)
    \/ \E w \in Workers : stream_audio_posadd(w)
    \/ \E w \in Workers : stream_audio_fin_release(w)
    \/ \E w \in Workers : stream_audio_fin_clear(w)

\* the commands and the workers, with no reader of status running
Spec == Init /\ [][Next]_vars

\* the same with the status reader running beside them
NextStatus ==
    \/ Next
    \/ status_check
    \/ status_state
    \/ status_rest
    \/ status_used

SpecStatus == Init /\ [][NextStatus]_vars

\* the command thread is scheduled: a stop() or play() in progress takes its
\* next step.  join() carries a timeout, so that step never waits for a
\* worker; nothing is assumed about the workers' progress
SpecLive == Init /\ [][Next]_vars
            /\ WF_vars(stop_join) /\ WF_vars(stop_clear)
            /\ WF_vars(play_start) /\ WF_vars(play_spawn)

\* any step of worker w
WorkerStep(w) ==
    \/ stream_audio_mkstemp(w)
    \/ stream_audio_download_fail(w)
    \/ stream_audio_download_end(w)
    \/ stream_audio_open_fail(w)
    \/ stream_audio_open(w)
    \/ stream_audio_loop(w)
    \/ stream_audio_read_eof(w)
    \/ stream_audio_read_block(w)
    \/ stream_audio_write_done(w)
    \/ stream_audio_write_fail(w)
    \/ stream_audio_posadd(w)
    \/ stream_audio_fin_release(w)
    \/ stream_audio_fin_clear(w)

\* the command thread and every started worker are scheduled: downloads and
\* device writes return, a worker that can take a step takes one
SpecFair == SpecLive /\ \A w \in Workers : WF_vars(WorkerStep(w))

\* the interactive session: the event loop, its handlers, the coroutines of
\* the HomeView and the display's renders
NextNav ==
    \/ event_loop_start
    \/ on_nav_select
    \/ on_content_select
    \/ push_view_leave
    \/ push_view_append
    \/ push_view_enter
    \/ pop_view_call
    \/ pop_view_leave
    \/ pop_view_enter
    \/ key_quit
    \/ key_space
    \/ \E k \in ViewKeys : key_view(k)
    \/ event_mouse_other
    \/ \E b \in {"toggle_pause", "stop"} : dispatch_click_footer(b)
    \/ \E l \in ListIds, i \in 0..(MaxItems - 1) : dispatch_click(l, i)
    \/ forward_key
    \/ \E l \in ListIds, h \in 1..MaxHeight : rich_console(l, h)
    \/ loop_break
    \/ run_live_exit
    \/ run_player_stop
    \/ run_api_close

SpecNav == Init /\ [][NextNav]_vars

\* the steps the session takes by itself, as opposed to the arrival of an
\* event
LoopStep ==
    \/ push_view_leave
    \/ push_view_append
    \/ push_view_enter
    \/ pop_view_leave
    \/ pop_view_enter
    \/ forward_key
    \/ run_live_exit
    \/ run_player_stop
    \/ run_api_close

\* the event loop is scheduled; whether another event ever arrives is up to
\* the user
SpecNavLive == SpecNav /\ WF_vars(LoopStep)

\* the session between two events, with its lists as constructed: the
\* HomeView after on_nav_select made a content list of n items, alone on the
\* stack or below a TrackView of m tracks that on_content_select pushed
InitList ==
    /\ current_track = None
    /\ playback_thread = None
    /\ stop_event = FALSE
    /\ pause_event = FALSE
    /\ stream = None
    /\ position = 0
    /\ duration = 0
    /\ is_paused = FALSE
    /\ temp_file = None
    /\ w_pc = [w \in Workers |-> "unborn"]
    /\ w_tmp = [w \in Workers |-> 0]
    /\ w_target = [w \in Workers |-> None]
    /\ w_exit = [w \in Workers |-> "running"]
    /\ streams = [w \in Workers |-> "none"]
    /\ files = {}
    /\ blocks = 0
    /\ ui_pc = "idle"
    /\ ui_op = "none"
    /\ ui_track = None
    /\ lastNoop = "none"
    /\ st_pc = "idle"
    /\ st_state = "unread"
    /\ lastStatus = NoStatus
    /\ \E n \in 0..MaxItems, m \in 0..MaxItems, depth \in 1..2 :
          /\ depth = 2 => n > 0
          /\ depth = 1 => m = 0
          /\ view_stack = IF depth = 1 THEN <<1>> ELSE <<1, 2>>
          /\ body = depth
          /\ views_made = depth
          /\ enters = [v \in Views |-> IF v <= depth THEN 1 ELSE 0]
          /\ leaves = [v \in Views |-> IF v < depth THEN 1 ELSE 0]
          /\ nav_view = depth
          /\ nav_n = depth
          /\ nav_before = IF depth = 1 THEN <<>> ELSE <<1>>
          /\ op_calls = IF depth = 1 THEN << <<"on_enter", 1>> >>
                        ELSE << <<"on_leave", 1>>, <<"on_enter", 2>> >>
          /\ items = [l \in ListIds |-> IF l = NavList THEN NavItems
                                        ELSE IF l = ContentList THEN n
                                        ELSE IF l = 2 THEN m ELSE 0]
          /\ is_focused = [l \in ListIds |-> l = ContentList \/ (l = 2 /\ depth = 2)]
    /\ running = TRUE
    /\ nav_pc = "idle"
    /\ nav_op = "push"
    /\ loop_pc = "wait"
    /\ key = "none"
    /\ ev_log = <<>>
    /\ selected_index = [l \in ListIds |-> 0]
    /\ scroll_offset = [l \in ListIds |-> 0]
    /\ hover_index = [l \in ListIds |-> -1]
    /\ content_list = ContentList
    /\ active_list = ContentList

\* SelectableList taken by itself: move and handle_click called by any
\* caller with any argument, hovers and renders in between
NextList ==
    \/ \E l \in ListIds, d \in (0 - MaxDelta)..MaxDelta : move_call(l, d)
    \/ \E l \in ListIds, i \in 0..(MaxItems - 1) : handle_click(l, i)
    \/ \E c \in ListIds \cup {StaleId}, i \in -1..(MaxItems - 1) : dispatch_hover(c, i)
    \/ \E l \in ListIds, h \in 1..MaxHeight : rich_console(l, h)

SpecList == InitList /\ [][NextList]_vars

TypeOK ==
    /\ current_track \in Tracks \cup {None}
    /\ playback_thread \in Workers \cup {None}
    /\ position \in 0..MaxBlocks
    /\ blocks \in 0..MaxBlocks
    /\ files \subseteq Workers

\* ---- the claims ---------------------------------------------------------

Writing(w) == w_pc[w] = "write"

\* C1: no two playback workers are inside stream.write() at the same time
C1_NoConcurrentWrites ==
    \A a, b \in Workers : (Writing(a) /\ Writing(b)) => a = b

\* C2: while a worker is alive, the cancel flag it observes is never cleared
\* once stop() has set it
C2_CancelNeverCleared ==
    [][\A w \in Workers :
          (stop_event /\ is_alive(w) /\ w_pc'[w] # "done") => stop_event']_vars

\* C3: once a later play() has returned, the worker of an earlier play()
\* starts no further write to the output device
C3_OldWorkerNeverWrites ==
    [][\A w \in Workers :
          (w < playback_thread /\ w_pc[playback_thread] # "unborn" /\ ~Writing(w))
              => w_pc'[w] # "write"]_vars

\* C4: from the return of play(B) until B's own worker ends or stop() or
\* another play() is called, status reports track B, playing or paused
C4_StatusKeepsNewTrack ==
    (ui_pc = "idle" /\ ui_track # None /\ ~Ended(playback_thread))
        => (StatusNow.track = ui_track /\ StatusNow.state \in {"playing", "paused"})

\* C5: a dict returned by status never says playing or paused with track
\* None, and its state and paused entries agree
C5_StatusConsistent ==
    (st_pc = "returned" /\ lastStatus.state \in {"playing", "paused"})
        => (lastStatus.track # None
            /\ (lastStatus.paused <=> lastStatus.state = "paused"))

\* C6: between the return of stop() and the next play(), status reports
\* stopped with no track, whether or not the worker has ended
C6_StoppedAfterStop ==
    AfterStop => (StatusNow.state = "stopped" /\ StatusNow.track = None)

C6_Witness ==
    /\ AfterStop
    /\ is_alive(playback_thread)
    /\ w_pc[playback_thread] \notin {"fin_release", "fin_clear"}
    /\ StatusNow = StoppedStatus

C8_ToggleNoTrackNoop ==
    [][(toggle_pause /\ current_track = None)
          => UNCHANGED <<playerVars, workerVars, ui_pc, ui_op>>]_vars

C8_Witness ==
    /\ lastNoop = "toggle_pause"
    /\ is_alive(playback_thread)
    /\ current_track = None
    /\ ~is_paused
    /\ StatusNow.state = "stopped"

\* C9: a play request whose stream details carry no url starts no session
\* and changes no field of the player and no worker
C9_NoUrlNoChange ==
    [][\A t \in Tracks :
          on_track_select(t, "none")
              => UNCHANGED <<playerVars, workerVars, ui_pc, ui_op, ui_track>>]_vars

C9_Witness ==
    /\ lastNoop = "no_url"
    /\ current_track # None
    /\ is_alive(playback_thread)
    /\ ui_pc = "idle"

\* C10: a stop() that has been called returns, with current_track None and
\* is_paused False on return, whatever the worker does
C10_StopReturns ==
    /\ (ui_op = "stop") ~> (ui_pc = "idle" /\ current_track = None /\ ~is_paused)
    /\ [][(ui_op = "stop" /\ ui_op' # "stop")
             => (ui_pc' = "idle" /\ current_track' = None /\ ~is_paused')]_vars

C10_Witness ==
    /\ AfterStop
    /\ w_pc[playback_thread] \in {"download", "write"}
    /\ current_track = None
    /\ ~is_paused

\* stop() has just set the events for worker w, which was paused and waiting
\* on the gate
PausedStop(w) ==
    /\ ui_op = "stop"
    /\ ui_pc = "stop_join"
    /\ is_paused
    /\ w = playback_thread
    /\ w_pc[w] = "wait"

\* C11: when stop() is called on a paused session whose worker waits on the
\* pause gate, the gate is open and, unless play() is called again, the
\* worker returns
C11_PausedWorkerTerminates ==
    /\ [](\A w \in Workers : PausedStop(w) => pause_event)
    /\ \A w \in Workers : PausedStop(w) ~> (w_pc[w] = "done" \/ ui_op = "play")

C11_Witness ==
    \E w \in Workers : PausedStop(w) /\ pause_event /\ stop_event

\* stop() has returned after setting the cancel flag, and no play() since
CancelledAfterStop == AfterStop /\ stop_event

\* C12: after a stop() whose join timed out, with no later play(), a worker
\* never passes the loop test again: it starts no block beyond the iteration
\* it was in
C12_DetachedWorkerStops ==
    [][\A w \in Workers :
          CancelledAfterStop
              => /\ ~(w_pc[w] = "loop" /\ w_pc'[w] = "wait")
                 /\ (w_pc'[w] = "write" /\ w_pc[w] # "write" => w_pc[w] = "wait")]_vars

C12_Witness ==
    /\ CancelledAfterStop
    /\ w_pc[playback_thread] = "write"

\* the step on which play() returns to its caller
PlayReturns == ui_pc = "play_spawn" /\ ui_pc' = "idle"

\* C13: whatever the state before, when play(track, url) returns the engine
\* reports state playing, paused False, the given track and position 0, and
\* the pause gate is released
C13_PlayLeavesPlaying ==
    [][PlayReturns
          => /\ StatusNow'.state = "playing"
             /\ StatusNow'.paused = FALSE
             /\ StatusNow'.track = ui_track
             /\ StatusNow'.position = 0
             /\ pause_event']_vars

\* a call of toggle_pause() made while a track is current
ToggleWithTrack ==
    /\ ui_pc = "idle"
    /\ current_track # None
    /\ lastNoop' = "none"
    /\ is_paused' # is_paused
    /\ UNCHANGED <<current_track, playback_thread, stop_event, stream, position,
                   duration, temp_file, ui_pc, ui_op, ui_track>>

\* the reported state that toggle_pause() turns s into
Flipped(s) == IF s = "playing" THEN "paused" ELSE "playing"

\* C14: with a track current, toggle_pause() flips the reported state between
\* playing and paused and closes the gate when pausing, opens it when resuming;
\* the gate agrees with the paused flag between calls, so a second call
\* restores the state and the gate of before the first
C14_ToggleFlips ==
    /\ []((ui_pc = "idle" /\ current_track # None) => (pause_event <=> ~is_paused))
    /\ [][ToggleWithTrack
            => /\ StatusNow'.state = Flipped(StatusNow.state)
               /\ StatusNow'.paused = ~StatusNow.paused
               /\ pause_event' = ~pause_event
               /\ pause_event' = ~is_paused']_vars

C14_Witness ==
    /\ ui_pc = "idle"
    /\ current_track # None
    /\ is_paused
    /\ ~pause_event
    /\ w_pc[playback_thread] = "wait"

\* play() has returned, neither stop() nor another play() has been called
\* since, and status does not report stopped
InSession == ui_pc = "idle" /\ ui_track # None /\ StatusNow.state # "stopped"

\* C15: within one session the position reported by status never decreases
\* from one call to a later one, whatever the workers do in between
C15_PositionMonotone ==
    [][(InSession /\ InSession') => StatusNow'.position >= StatusNow.position]_vars

\* the event loop's first push_view(HomeView) has returned
RootPushed == views_made >= 1 /\ ~(nav_n = 1 /\ nav_pc # "idle")

\* C16: after the initial push of the HomeView, whatever push_view and
\* pop_view calls follow, the stack holds at least one view and its bottom
\* element is that HomeView
C16_StackRooted ==
    RootPushed => (Len(view_stack) >= 1 /\ view_stack[1] = 1)

C16_Witness ==
    /\ nav_pc = "idle"
    /\ nav_op = "pop"
    /\ nav_before = <<1, 3>>
    /\ views_made >= 3
    /\ Len(view_stack) = 1

\* a call of pop_view() made
PopCalled == nav_op' = "pop" /\ nav_n' = nav_n + 1

\* C17: pop_view() on a stack of exactly one view returns at once and changes
\* nothing: same stack, no on_leave and no on_enter on any view, same body,
\* and the application is still running
C17_PopAtRootNoop ==
    [][(PopCalled /\ Len(view_stack) = 1)
          => /\ UNCHANGED <<view_stack, enters, leaves, body, running>>
             /\ nav_pc' = "idle"
             /\ op_calls' = <<>>
             /\ running']_vars

C17_Witness ==
    /\ nav_pc = "idle"
    /\ nav_op = "pop"
    /\ Len(nav_before) = 1
    /\ view_stack = nav_before
    /\ body = 1
    /\ running

\* the last navigation call has returned and changed the top of the stack
Transition ==
    /\ nav_pc = "idle"
    /\ \/ nav_op = "push"
       \/ nav_op = "pop" /\ Len(nav_before) > 1

\* C18: every push_view, and every pop_view made on more than one view, calls
\* on_leave once, on the view that was the top (not at all when the stack was
\* empty), then on_enter once, on the view that is the top afterwards
C18_OneLeaveThenOneEnter ==
    Transition
        => op_calls = (IF nav_before = <<>>
                       THEN <<>>
                       ELSE << <<"on_leave", Last(nav_before)>> >>)
                      \o << <<"on_enter", Last(view_stack)>> >>

C18_Witness ==
    /\ Transition
    /\ nav_op = "pop"
    /\ Len(op_calls) = 2
    /\ leaves[Last(nav_before)] = 1

\* C19: when on_leave of a view is called, that view is the top element of
\* the stack
C19_LeaveWhileTop ==
    [][\A v \in Views :
          leaves'[v] > leaves[v] => (view_stack # <<>> /\ Last(view_stack) = v)]_vars

\* C20: pop_view() on two or more views removes the top view only, calls
\* on_enter once more on the view below it and shows that view's layout as
\* the body; push Home, push TrackView, pop ends with the stack [Home] and two
\* calls of Home.on_enter in all
C20_PopReenters ==
    /\ (nav_pc = "idle" /\ nav_op = "pop" /\ Len(nav_before) >= 2)
          => /\ view_stack = Front(nav_before)
             /\ Last(op_calls) = <<"on_enter", nav_before[Len(nav_before) - 1]>>
             /\ enters[Last(view_stack)] >= 2
             /\ body = Last(view_stack)
    /\ (nav_pc = "idle" /\ nav_op = "pop" /\ nav_n = 3 /\ views_made = 2)
          => (view_stack = <<1>> /\ enters[1] = 2)

C20_Witness ==
    /\ nav_pc = "idle"
    /\ nav_op = "pop"
    /\ nav_n = 3
    /\ views_made = 2
    /\ nav_before = <<1, 2>>
    /\ enters[1] = 2

\* C30: a worker that was waiting on the pause gate when stop() set the cancel
\* flag tests the flag before it reads and writes: it hands no further block
\* to the device and does not advance position
C30_CancelSeenAfterGate ==
    [][\A w \in Workers :
          PausedStop(w) => (w_pc'[w] # "write" /\ position' <= position)]_vars

\* the step at which line 95-96 is passed for the key in hand
KeyForwarded == loop_pc = "forward" /\ loop_pc' # "forward"

\* C21: a key with a global binding (q, ctrl+c, space, b, esc) is consumed by
\* the event loop: handle_input of no view is called with it
C21_GlobalKeyConsumed ==
    [][(KeyForwarded /\ key \in GlobalKeys)
          => \A n \in 1..Len(ev_log') : ev_log'[n][1] # "handle_input"]_vars

\* the with block of run() has been left
LiveReleased == loop_pc \in {"released", "stopped", "closed", "failed"}

\* run() has called player.stop()
StopCalled == loop_pc \in {"stopped", "closed"}

\* C22: when the session exits, player.stop() has been called by the time
\* the Live display is released
C22_StopBeforeRelease ==
    LiveReleased => StopCalled

\* C23: once a quit key has cleared running, the loop ends and run() goes
\* through its teardown, whether or not another event arrives
C23_QuitEndsLoop ==
    (~running) ~> (loop_pc = "closed")

\* C24: a hover message changes hover_index of the list of the top view
\* whose id it carries and nothing else: not selected_index, scroll_offset,
\* focus, the view stack or the player; with an id that matches no such list
\* it changes nothing
C24_HoverOnlyHighlights ==
    [][\A c \in ListIds \cup {StaleId}, i \in -1..(MaxItems - 1) :
          dispatch_hover(c, i)
              => /\ UNCHANGED <<items, selected_index, scroll_offset, is_focused,
                                content_list, active_list, view_stack, body,
                                running, ev_log, otherVars>>
                 /\ \A l \in ListIds :
                       hover_index'[l] = IF l = c /\ c \in ListsOf(Last(view_stack))
                                         THEN i ELSE hover_index[l]]_vars

C24_Witness ==
    /\ view_stack = <<1>>
    /\ content_list # None
    /\ hover_index[ContentList] = 1
    /\ selected_index[ContentList] = 0
    /\ hover_index[NavList] = -1

\* C25: a mouse click on row i of a list sets selected_index to i and
\* performs the confirm action for that row, as moving to the row and
\* pressing enter does
C25_ClickSelectsAndConfirms ==
    [][\A l \in ListIds, i \in 0..(MaxItems - 1) :
          dispatch_click(l, i)
              => /\ selected_index'[l] = i
                 /\ loop_pc' # "raised"
                 /\ ev_log' # <<>>]_vars

\* the list that enter acts on in the view on top
EnterList == IF Last(view_stack) = 1 THEN active_list ELSE Last(view_stack)

\* C29: enter on an empty list does nothing in any view: no playback is
\* asked for, no view is pushed, the lists, the stack and the player stay as
\* they are and no error leaves handle_input
C29_EnterOnEmptyNoop ==
    [][(KeyForwarded /\ key = "enter" /\ selected_item(EnterList) = None)
          => /\ UNCHANGED <<navVars, listVars, otherVars>>
             /\ ev_log' = Append(ev_log, <<"handle_input", Last(view_stack)>>)
             /\ loop_pc' = "wait"]_vars

C29_Witness ==
    /\ loop_pc = "wait"
    /\ key = "enter"
    /\ Len(view_stack) = 2
    /\ items[Last(view_stack)] = 0
    /\ ev_log = << <<"handle_input", Last(view_stack)>> >>

Deltas == (0 - MaxDelta)..MaxDelta

\* C26: move(delta) on an empty list does nothing, whatever the delta:
\* selected_index and scroll_offset keep their values and neither on_change
\* nor on_select is called
C26_MoveOnEmptyNoop ==
    [][\A l \in ListIds, d \in Deltas :
          (move_call(l, d) /\ items[l] = 0)
              => /\ UNCHANGED <<selected_index, scroll_offset>>
                 /\ ev_log' = << <<"move", l>> >>]_vars

C26_Witness ==
    \E l \in ListsMade :
        /\ items[l] = 0
        /\ ev_log = << <<"move", l>> >>
        /\ selected_index[l] = 0

\* C27: in a non-empty list, whatever moves and clicks on its rows have been
\* made, selected_index is an index of the list and selected_item one of its
\* items
C27_SelectionInRange ==
    \A l \in ListsMade :
        items[l] > 0
            => /\ 0 <= selected_index[l]
               /\ selected_index[l] < items[l]
               /\ selected_item(l) \in 1..items[l]

C27_Witness ==
    \E l \in ListsMade :
        /\ items[l] >= 2
        /\ Len(ev_log) >= 1
        /\ ev_log[1] = <<"move", l>>
        /\ selected_index[l] = items[l] - 1

\* clamp(x, lo, hi)
Clamp(x, lo, hi) == IF x < lo THEN lo ELSE IF x > hi THEN hi ELSE x

\* C28: on a non-empty list move(delta) sets selected_index to
\* clamp(selected_index + delta, 0, len(items) - 1), calls on_change (where
\* one is installed) exactly when the index changed, with the newly selected
\* item, and never calls on_select
C28_MoveClamps ==
    [][\A l \in ListIds, d \in Deltas :
          (move_call(l, d) /\ items[l] > 0)
              => /\ selected_index'[l] = Clamp(selected_index[l] + d, 0, items[l] - 1)
                 /\ ev_log' = << <<"move", l>> >>
                               \o (IF selected_index'[l] # selected_index[l]
                                      /\ l = ContentList
                                   THEN << <<"on_change", l, selected_index'[l] + 1>> >>
                                   ELSE <<>>)]_vars

C28_Witness ==
    /\ ev_log = << <<"move", ContentList>>, <<"on_change", ContentList, 2>> >>
    /\ selected_index[ContentList] = 1

\* toggle_pause() has returned with the session paused and no command has
\* been called since
PausedIdle == ui_pc = "idle" /\ is_paused

\* C31: once toggle_pause() has returned with the session paused, and until
\* the next command is called, no worker hands a new block to the device: a
\* worker finishes at most the write it was in, and position changes only by
\* the += that belongs to such a write
C31_PauseAtBlockBoundary ==
    [][PausedIdle
          => /\ \A w \in Workers : w_pc'[w] = "write" => w_pc[w] = "write"
             /\ blocks' = blocks
             /\ position' # position
                   => \E w \in Workers : /\ w_pc[w] = "posadd"
                                         /\ w_pc'[w] = "loop"
                                         /\ position' = w_tmp[w] + 1]_vars

C31_Witness ==
    /\ PausedIdle
    /\ current_track # None
    /\ ~pause_event
    /\ w_pc[playback_thread] = "wait"
    /\ position >= 1
    /\ blocks >= 1

\* C32: a worker that has returned has left no open stream of its own and
\* no temporary file of its own behind
C32_OwnResourcesReleased ==
    \A w \in Workers :
        w_pc[w] = "done" => (w \notin files /\ streams[w] # "started")

\* C33: when a worker has read the end of its file, status comes to report
\* stopped with no track without any stop() call
C33_EndOfStreamStops ==
    \A w \in Workers :
        (w_exit[w] = "eof" /\ w_pc[w] = "fin_release")
            ~> (StatusNow.state = "stopped" /\ StatusNow.track = None)

C33_Witness ==
    /\ playback_thread # None
    /\ w_pc[playback_thread] = "done"
    /\ w_exit[playback_thread] = "eof"
    /\ ui_pc = "idle"
    /\ ui_track # None
    /\ StatusNow = StoppedStatus

\* the finally block of worker w stops and closes a stream
Closes(w) == w_pc[w] = "fin_release" /\ w_pc'[w] = "fin_clear" /\ stream # None

\* C35: a worker's cleanup stops and closes only the stream that this worker
\* opened, and only while that stream is still open
C35_ClosedOnceByOpener ==
    [][\A w \in Workers :
          Closes(w) => (stream = w /\ streams[w] = "started")]_vars

\* the step on which play(), stop() or toggle_pause() returns
CommandReturns == PlayReturns \/ stop_clear \/ toggle_pause

\* C36: when play(), toggle_pause() or stop() returns, the pause gate is
\* closed exactly if is_paused is True
C36_GateAgreesWithFlag ==
    [][CommandReturns => (pause_event' = ~is_paused')]_vars

\* C34: whatever the selection and the offset of a non-empty list are when it
\* is rendered with h lines, the render leaves the selection inside the
\* window [scroll_offset, scroll_offset + h); it keeps the offset when the
\* selection was inside already, and a second render with the same h and
\* selection keeps the offset of the first
C34_RenderKeepsSelectionVisible ==
    \A l \in ListsMade, h \in 1..MaxHeight :
        items[l] > 0
            => LET sel == selected_index[l]
                   old == scroll_offset[l]
                   new == auto_scroll(sel, old, h)
               IN /\ new <= sel
                  /\ sel < new + h
                  /\ (old <= sel /\ sel < old + h) => new = old
                  /\ auto_scroll(sel, new, h) = new

C34_Witness ==
    \E l \in ListsMade :
        /\ items[l] >= 2
        /\ selected_index[l] = 1
        /\ scroll_offset[l] = 1

\* C37: when no push_view or pop_view is in progress, the top view has had
\* one on_enter more than on_leave, and every other view, below it on the
\* stack or popped, has had as many of the one as of the other
C37_OnlyTopEntered ==
    (nav_pc = "idle" /\ view_stack # <<>>)
        => \A v \in Views :
              enters[v] - leaves[v] = IF v = Last(view_stack) THEN 1 ELSE 0

C37_Witness ==
    /\ nav_pc = "idle"
    /\ view_stack = <<1, 3>>
    /\ enters[1] = 2 /\ leaves[1] = 2
    /\ enters[2] = 1 /\ leaves[2] = 1
    /\ enters[3] = 1 /\ leaves[3] = 0

\* the lists of the HomeView that are drawn focused
Focused == {l \in ListsOf(1) : is_focused[l]}

HandlerFailed ==
    /\ loop_pc = "failed"
    /\ ev_log # <<>>
    /\ ev_log[1][1] = "handle_input"

\* C39: when the input handler of a view raises, player.stop() is called
\* before run() ends
C39_StopAfterHandlerError ==
    HandlerFailed => \E n \in 1..Len(ev_log) : ev_log[n] = <<"stop">>
====
